---- MODULE Spec2Model ----
(***************************************************************************)
(* Model of the article search / relevance ranking scripts                 *)
(* Filtro_SerpiAPI.py (accumulating variant) and Filtro_bilingue.py        *)
(* (single-shot variant).                                                  *)
(*                                                                         *)
(* Texts are sequences of pieces: a piece is a word or the blank " ".      *)
(* Similarities are fixed-point numbers, Escala standing for 1.0.          *)
(* A call that raises is a record whose field erro names the exception.    *)
(***************************************************************************)
EXTENDS Integers, Sequences, FiniteSets, TLC

VARIABLES
    entrada,        \* harness: arguments of the function under call
    chamada,        \* harness: "pendente", "retornou" or "levantou"
    saida,          \* harness: value returned by the call
    apos,           \* harness: the argument objects after the call (dicts are mutated in place)
    variante,       \* which script runs: "SerpiAPI", "bilingue" or "nenhuma"
    pc,             \* position of the script
    idioma,         \* language chosen for the session
    novo_termo,     \* SerpiAPI: the term read last, stripped
    query_acumulada,\* SerpiAPI: accumulated query; bilingue: tema
    artigos,        \* SerpiAPI: accumulated relevant articles; bilingue: artigos_relevantes
    pendentes,      \* articles of the round still to be displayed / downloaded
    pasta_existe,   \* does the directory "pdfs" exist
    arquivos,       \* names of the files in "pdfs"
    buscas,         \* queries handed to the search provider, in order
    salvos,         \* argument lists of the calls of salvar_artigos, in order
    rodadas,        \* rounds of the query loop entered so far
    descartados,    \* articles scored with relevancia 0 so far
    ultima,         \* what the last loop step did
    erro            \* exception that ended the script, "" when none

vars == <<entrada, chamada, saida, apos, variante, pc, idioma, novo_termo, query_acumulada,
          artigos, pendentes, pasta_existe, arquivos, buscas, salvos, rodadas, descartados,
          ultima, erro>>

harness == <<entrada, chamada, saida, apos>>
disco == <<pasta_existe, arquivos>>
script == <<variante, pc, idioma, novo_termo, query_acumulada, artigos, pendentes,
            buscas, salvos, rodadas, descartados, ultima, erro>>

(***************************************************************************)
(* Bounds of the model                                                     *)
(***************************************************************************)
MaxArtigos == 3      \* longest list handed to calcular_relevancia in the harness
MaxResultados == 1   \* longest result list of the search provider
MaxRodadas == 2      \* rounds of the query loop
Escala == 1000       \* fixed-point resolution of a similarity

Range(s) == { s[i] : i \in DOMAIN s }

Min(a, b) == IF a <= b THEN a ELSE b

RECURSIVE SeqsUpTo(_, _)
SeqsUpTo(S, n) ==
    IF n = 0 THEN { <<>> }
    ELSE LET shorter == SeqsUpTo(S, n - 1)
         IN  shorter \cup { Append(s, x) : s \in { t \in shorter : Len(t) = n - 1 }, x \in S }

(***************************************************************************)
(* Text                                                                    *)
(***************************************************************************)
Branco == " "

\* str.lower() on the words of the model
Lower(w) ==
    CASE w = "SAIR" -> "sair"
      [] w = "Sair" -> "sair"
      [] w = "Graph" -> "graph"
      [] w = "EN" -> "en"
      [] w = "PT" -> "pt"
      [] OTHER -> w

LowerTexto(t) == [i \in DOMAIN t |-> Lower(t[i])]

\* str.strip(): drop the leading and the trailing blanks
RECURSIVE LStrip(_)
LStrip(t) == IF t # <<>> /\ Head(t) = Branco THEN LStrip(Tail(t)) ELSE t

RECURSIVE RStrip(_)
RStrip(t) ==
    IF t # <<>> /\ t[Len(t)] = Branco THEN RStrip(SubSeq(t, 1, Len(t) - 1)) ELSE t

Strip(t) == RStrip(LStrip(t))

\* "Resumo não disponível"
Sentinela == <<"Resumo", Branco, "nao", Branco, "disponivel">>

StopWordsEn == {"the", "of"}
StopWordsPt == {"para", "de"}

stop_words(idi) == IF idi = "pt" THEN StopWordsPt ELSE StopWordsEn

(***************************************************************************)
(* TfidfVectorizer and cosine_similarity                                   *)
(***************************************************************************)
\* the analyzer: lowercase, split at blanks, drop the stop words
Tokenize(texto, idi) ==
    SelectSeq(LowerTexto(texto), LAMBDA p : p # Branco /\ p \notin stop_words(idi))

Conta(tokens, t) == Cardinality({ i \in DOMAIN tokens : tokens[i] = t })

Vocabulario(docs, idi) == UNION { Range(Tokenize(docs[i], idi)) : i \in DOMAIN docs }

Df(docs, idi, t) ==
    Cardinality({ i \in DOMAIN docs : t \in Range(Tokenize(docs[i], idi)) })

\* 1000 * ln(k)
LnMilli(k) ==
    CASE k = 1 -> 0
      [] k = 2 -> 693
      [] k = 3 -> 1099
      [] k = 4 -> 1386
      [] k = 5 -> 1609
      [] k = 6 -> 1792
      [] k = 7 -> 1946
      [] k = 8 -> 2079
      [] k = 9 -> 2197
      [] k = 10 -> 2303
      [] k = 11 -> 2398
      [] k = 12 -> 2485

\* smooth idf: ln((1 + n) / (1 + df)) + 1, in thousandths
Idf(n, df) == LnMilli(1 + n) - LnMilli(1 + df) + 1000

RECURSIVE SomaSobre(_, _)
SomaSobre(S, f) ==
    IF S = {} THEN 0
    ELSE LET x == CHOOSE y \in S : TRUE IN f[x] + SomaSobre(S \ {x}, f)

RECURSIVE RaizEntre(_, _, _)
RaizEntre(n, lo, hi) ==
    IF lo >= hi THEN lo
    ELSE LET mid == (lo + hi + 1) \div 2
         IN  IF mid * mid <= n THEN RaizEntre(n, mid, hi) ELSE RaizEntre(n, lo, mid - 1)

\* floor of the square root
Raiz(n) == RaizEntre(n, 0, Min(n, 46340))

\* l2 normalisation of a row; a zero row stays zero
Normaliza(linha) ==
    LET norma == Raiz(SomaSobre(DOMAIN linha, [t \in DOMAIN linha |-> linha[t] * linha[t]]))
    IN  IF norma = 0 THEN linha
        ELSE [t \in DOMAIN linha |-> (linha[t] * Escala) \div norma]

\* TfidfVectorizer(stop_words=...).fit_transform(docs)
fit_transform(docs, idi) ==
    LET V == Vocabulario(docs, idi)
        n == Len(docs)
        linha(i) == [t \in V |-> Conta(Tokenize(docs[i], idi), t) * Idf(n, Df(docs, idi, t))]
    IN  IF V = {}
        THEN [erro |-> "ValueError", matriz |-> <<>>]
        ELSE [erro |-> "", matriz |-> [i \in DOMAIN docs |-> Normaliza(linha(i))]]

Produto(x, y) == SomaSobre(DOMAIN x, [t \in DOMAIN x |-> x[t] * y[t]]) \div Escala

\* cosine_similarity(X, Y).flatten() for a one-row X
cosine_similarity(x, Y) ==
    IF Len(Y) = 0
    THEN [erro |-> "ValueError", valores |-> <<>>]
    ELSE [erro |-> "",
          valores |-> [j \in DOMAIN Y |-> Produto(Normaliza(x), Normaliza(Y[j]))]]

(***************************************************************************)
(* calcular_relevancia                                                     *)
(***************************************************************************)
ComRelevancia(a, r) ==
    [titulo |-> a.titulo, resumo |-> a.resumo, link |-> a.link, relevancia |-> r]

\* textos = [artigo['resumo'] for artigo in artigos if artigo['resumo'] != sentinel]
Textos(arts) ==
    LET validos == SelectSeq(arts, LAMBDA a : a.resumo # Sentinela)
    IN  [i \in DOMAIN validos |-> validos[i].resumo]

\* for i, artigo in enumerate(artigos):
\*     artigo['relevancia'] = similaridades[i] if i < len(similaridades) else 0
Atribui(arts, similaridades) ==
    [i \in DOMAIN arts |->
        ComRelevancia(arts[i], IF i <= Len(similaridades) THEN similaridades[i] ELSE 0)]

\* list.sort is stable, and reverse=True keeps the input order of equal keys:
\* an element goes after every element whose key is greater or equal
Insere(ordenados, a) ==
    LET k == Cardinality({ i \in DOMAIN ordenados : ordenados[i].relevancia >= a.relevancia })
    IN  SubSeq(ordenados, 1, k) \o <<a>> \o SubSeq(ordenados, k + 1, Len(ordenados))

RECURSIVE Ordena(_)
Ordena(arts) ==
    IF arts = <<>> THEN <<>>
    ELSE Insere(Ordena(SubSeq(arts, 1, Len(arts) - 1)), arts[Len(arts)])

\* the sort without reverse=True: ascending
RECURSIVE sorted_crescente(_)
sorted_crescente(arts) ==
    IF arts = <<>> THEN <<>>
    ELSE LET resto == sorted_crescente(SubSeq(arts, 1, Len(arts) - 1))
             a == arts[Len(arts)]
             k == Cardinality({ i \in DOMAIN resto : resto[i].relevancia <= a.relevancia })
         IN  SubSeq(resto, 1, k) \o <<a>> \o SubSeq(resto, k + 1, Len(resto))

\* a descending order got by reversing the ascending sort: equal keys swap places
sorted_invertido(arts) ==
    LET asc == sorted_crescente(arts)
    IN  [i \in DOMAIN asc |-> asc[Len(asc) + 1 - i]]

\* sorted(artigos, key=lambda x: x['relevancia'], reverse=True)
sorted(arts) == Ordena(arts)

\* similaridades = cosine_similarity(matriz_tfidf[-1], matriz_tfidf[:-1]).flatten()
\* over textos + [termo_referencia]
Similaridades(textos, termo_referencia, idi) ==
    LET tfidf == fit_transform(Append(textos, termo_referencia), idi)
        n == Len(textos) + 1
    IN  IF tfidf.erro # ""
        THEN [erro |-> tfidf.erro, valores |-> <<>>]
        ELSE cosine_similarity(tfidf.matriz[n], SubSeq(tfidf.matriz, 1, n - 1))

\* erro: the exception raised, "" when the call returns;
\* artigos: the argument list after the call; ordenados: the returned list
calcular_relevancia(arts, termo_referencia, idi) ==
    LET cos == Similaridades(Textos(arts), termo_referencia, idi)
        marcados == Atribui(arts, cos.valores)
    IN  IF cos.erro # ""
        THEN [erro |-> cos.erro, artigos |-> arts, ordenados |-> <<>>]
        ELSE [erro |-> "", artigos |-> marcados, ordenados |-> sorted(marcados)]

(***************************************************************************)
(* baixar_pdf                                                              *)
(***************************************************************************)
CorteTitulo == 50

\* f"{artigo['titulo'][:50]}.pdf"
NomeArquivo(artigo) == SubSeq(artigo.titulo, 1, Min(CorteTitulo, Len(artigo.titulo)))

\* amb is what the environment answers during the call:
\*   makedirs: "ok" or "OSError"; resposta: "200", "404" or "ConnectionError";
\*   escrita: "ok", "open_falha" (no file created) or "write_falha" (file left partial)
\* erro: the exception that leaves the call, "" when it returns retorno
baixar_pdf(artigo, amb, existe, arqs) ==
    LET pasta == existe \/ amb.makedirs = "ok"
        nome == NomeArquivo(artigo)
    IN  IF ~existe /\ amb.makedirs # "ok"
        THEN [erro |-> amb.makedirs, retorno |-> FALSE, pasta_existe |-> FALSE, arquivos |-> arqs]
        ELSE IF artigo.link = ""
        THEN [erro |-> "", retorno |-> FALSE, pasta_existe |-> pasta, arquivos |-> arqs]
        ELSE IF amb.resposta = "ConnectionError"
        THEN [erro |-> "", retorno |-> FALSE, pasta_existe |-> pasta, arquivos |-> arqs]
        ELSE IF amb.resposta # "200"
        THEN [erro |-> "", retorno |-> FALSE, pasta_existe |-> pasta, arquivos |-> arqs]
        ELSE IF amb.escrita = "open_falha"
        THEN [erro |-> "", retorno |-> FALSE, pasta_existe |-> pasta, arquivos |-> arqs]
        ELSE IF amb.escrita = "write_falha"
        THEN [erro |-> "", retorno |-> FALSE, pasta_existe |-> pasta,
              arquivos |-> arqs \cup {nome}]
        ELSE [erro |-> "", retorno |-> TRUE, pasta_existe |-> pasta,
              arquivos |-> arqs \cup {nome}]

Ambientes ==
    [makedirs : {"ok", "OSError"},
     resposta : {"200", "404", "ConnectionError"},
     escrita : {"ok", "open_falha", "write_falha"}]

(***************************************************************************)
(* Inputs                                                                  *)
(***************************************************************************)
\* titles "t", "tt", "ttt", ...: one per position of a list
Titulo(i) == [k \in 1..i |-> "t"]

Resumos ==
    { Sentinela,
      <<"Graph", Branco, "neural">>,
      <<"the", Branco, "graph">>,
      <<"para">>,
      <<>> }

Termos ==
    { <<"graph">>, <<"neural", Branco, "graph">>, <<"the">>, <<"para">>, <<>> }

Idiomas == {"en", "pt"}

Links == {"", "http://exemplo/a.pdf"}

Artigo(i, resumo, link) == [titulo |-> Titulo(i), resumo |-> resumo, link |-> link]

ListasDeArtigos(n, R) ==
    { [i \in DOMAIN rs |-> Artigo(i, rs[i], "")] : rs \in SeqsUpTo(R, n) }

ScriptParado ==
    /\ variante = "nenhuma"
    /\ pc = "fim"
    /\ idioma = "en"
    /\ novo_termo = <<>>
    /\ query_acumulada = <<>>
    /\ artigos = <<>>
    /\ pendentes = <<>>
    /\ buscas = <<>>
    /\ salvos = <<>>
    /\ rodadas = 0
    /\ descartados = 0
    /\ ultima = ""
    /\ erro = ""

(***************************************************************************)
(* Specification of one call of calcular_relevancia on any input           *)
(***************************************************************************)
InitRelevancia ==
    /\ entrada \in [artigos : ListasDeArtigos(MaxArtigos, Resumos),
                     termo : Termos, idioma : Idiomas]
    /\ chamada = "pendente"
    /\ saida = <<>>
    /\ apos = <<>>
    /\ pasta_existe = FALSE
    /\ arquivos = {}
    /\ ScriptParado

ChamaCalcularRelevancia ==
    /\ chamada = "pendente"
    /\ LET r == calcular_relevancia(entrada.artigos, entrada.termo, entrada.idioma)
       IN  /\ chamada' = IF r.erro = "" THEN "retornou" ELSE "levantou"
           /\ saida' = r.ordenados
           /\ apos' = r.artigos
    /\ UNCHANGED <<entrada, disco, script>>

NextRelevancia == ChamaCalcularRelevancia

SpecRelevancia == InitRelevancia /\ [][NextRelevancia]_vars

(***************************************************************************)
(* Specification of one call of baixar_pdf on any article and environment  *)
(***************************************************************************)
ArtigosPdf ==
    { [titulo |-> Titulo(n), resumo |-> r, link |-> l, relevancia |-> Escala] :
        n \in {1, CorteTitulo, CorteTitulo + 2}, r \in {<<"graph">>}, l \in Links }

InitPdf ==
    /\ entrada \in [artigo : ArtigosPdf, amb : Ambientes]
    /\ chamada = "pendente"
    /\ saida = FALSE
    /\ apos = <<>>
    /\ pasta_existe \in BOOLEAN
    /\ arquivos = {}
    /\ ScriptParado

ChamaBaixarPdf ==
    /\ chamada = "pendente"
    /\ LET r == baixar_pdf(entrada.artigo, entrada.amb, pasta_existe, arquivos)
       IN  /\ chamada' = IF r.erro = "" THEN "retornou" ELSE "levantou"
           /\ saida' = r.retorno
           /\ pasta_existe' = r.pasta_existe
           /\ arquivos' = r.arquivos
    /\ UNCHANGED <<entrada, apos, script>>

NextPdf == ChamaBaixarPdf

SpecPdf == InitPdf /\ [][NextPdf]_vars

(***************************************************************************)
(* The scripts (__main__ of both files)                                    *)
(***************************************************************************)
\* the comparison without .lower()
SairSensivel(termo) == termo = <<"sair">>

\* novo_termo.lower() == "sair"
Sair(termo) == LowerTexto(termo) = <<"sair">>

\* query_acumulada += f" {novo_termo}", or the term itself on the first round
AtualizaQuery(query, termo) ==
    IF query # <<>> THEN query \o <<Branco>> \o termo ELSE termo

PadraoMaxResultados == 10

\* int(input(...)), 10 on ValueError
LeMaxResultados(digitado) ==
    CASE digitado = "0" -> 0
      [] digitado = "1" -> 1
      [] digitado = "2" -> 2
      [] OTHER -> PadraoMaxResultados

\* resultados[:max_resultados] turned into articles
Limita(resultados, max_resultados) ==
    SubSeq(resultados, 1, Min(Len(resultados), max_resultados))

\* coletar_artigos of Filtro_SerpiAPI.py; resposta is what requests.get does
coletar_artigos(resposta, max_resultados) ==
    IF resposta.tipo = "excecao"
    THEN [erro |-> "ConnectionError", artigos |-> <<>>]
    ELSE IF resposta.status = 200
    THEN [erro |-> "", artigos |-> Limita(resposta.resultados, max_resultados)]
    ELSE [erro |-> "", artigos |-> <<>>]

\* coletar_artigos of Filtro_bilingue.py; resposta is what scholarly.search_pubs does
coletar_artigos_scholarly(resposta, max_resultados) ==
    IF resposta.tipo = "excecao"
    THEN [erro |-> "ConnectionError", artigos |-> <<>>]
    ELSE [erro |-> "", artigos |-> Limita(resposta.resultados, max_resultados)]

\* the filter with >= in place of >
RelevantesComZero(arts) == SelectSeq(arts, LAMBDA a : a.relevancia >= 0)

\* [artigo for artigo in artigos_ordenados if artigo['relevancia'] > 0]
Relevantes(arts) == SelectSeq(arts, LAMBDA a : a.relevancia > 0)

\* what one organic result may hold: <<snippet, link>>
Catalogo ==
    { <<Sentinela, "">>,
      <<<<"Graph", Branco, "neural">>, "http://exemplo/a.pdf">>,
      <<<<"the">>, "">> }

ResultadosBusca ==
    { [i \in DOMAIN rs |-> Artigo(i, rs[i][1], rs[i][2])] :
        rs \in SeqsUpTo(Catalogo, MaxResultados) }

Respostas ==
    { [tipo |-> "excecao", status |-> 0, resultados |-> <<>>],
      [tipo |-> "resposta", status |-> 500, resultados |-> <<>>] }
    \cup { [tipo |-> "resposta", status |-> 200, resultados |-> r] : r \in ResultadosBusca }

EntradasIdioma == { <<"en">>, <<Branco, "PT">>, <<"fr">>, <<>> }

EntradasTermo == { <<"sair">>, <<"SAIR", Branco>>, <<>>, <<"graph">> }

EntradasMax == {"0", "1", "abc"}

Init ==
    /\ entrada = <<>>
    /\ chamada = "nenhuma"
    /\ saida = <<>>
    /\ apos = <<>>
    /\ variante \in {"SerpiAPI", "bilingue"}
    /\ pc = "carregar"
    /\ idioma = ""
    /\ novo_termo = <<>>
    /\ query_acumulada = <<>>
    /\ artigos = <<>>
    /\ pendentes = <<>>
    /\ pasta_existe \in BOOLEAN
    /\ arquivos = {}
    /\ buscas = <<>>
    /\ salvos = <<>>
    /\ rodadas = 0
    /\ descartados = 0
    /\ ultima = ""
    /\ erro = ""

Aborta(excecao, passo) ==
    /\ pc' = "abortado"
    /\ erro' = excecao
    /\ ultima' = passo

\* nlp_en = spacy.load(...); nlp_pt = spacy.load(...): OSError when a model is missing
CarregarModelos ==
    /\ pc = "carregar"
    /\ \E instalado \in BOOLEAN :
        IF instalado
        THEN /\ pc' = IF variante = "SerpiAPI" THEN "idioma" ELSE "tema"
             /\ ultima' = "carregou"
             /\ erro' = erro
        ELSE Aborta("OSError", "carregar")
    /\ UNCHANGED <<harness, disco, variante, idioma, novo_termo, query_acumulada, artigos,
                   pendentes, buscas, salvos, rodadas, descartados>>

\* bilingue: tema = input(...)
LerTema ==
    /\ pc = "tema"
    /\ \E digitado \in EntradasTermo :
        query_acumulada' = digitado
    /\ pc' = "idioma"
    /\ ultima' = "tema"
    /\ UNCHANGED <<harness, disco, variante, idioma, novo_termo, artigos, pendentes, buscas,
                   salvos, rodadas, descartados, erro>>

\* idioma = input(...).strip().lower(), "en" when not in ["en", "pt"]
LerIdioma ==
    /\ pc = "idioma"
    /\ \E digitado \in EntradasIdioma :
        LET lido == LowerTexto(Strip(digitado))
        IN  idioma' = IF lido \in {<<"en">>, <<"pt">>} THEN lido[1] ELSE "en"
    /\ pc' = IF variante = "SerpiAPI" THEN "prompt" ELSE "coletar"
    /\ ultima' = "idioma"
    /\ UNCHANGED <<harness, disco, variante, novo_termo, query_acumulada, artigos, pendentes,
                   buscas, salvos, rodadas, descartados, erro>>

\* SerpiAPI: top of the while loop: read the term, break on "sair",
\* else update the accumulated query
LerTermo ==
    /\ variante = "SerpiAPI"
    /\ pc = "prompt"
    /\ \E digitado \in EntradasTermo :
        LET termo == Strip(digitado)
        IN  /\ novo_termo' = termo
            /\ IF Sair(termo)
               THEN /\ pc' = "salvar"
                    /\ ultima' = "sair"
                    /\ UNCHANGED <<query_acumulada, rodadas>>
               ELSE /\ rodadas < MaxRodadas
                    /\ query_acumulada' = AtualizaQuery(query_acumulada, termo)
                    /\ rodadas' = rodadas + 1
                    /\ pc' = "coletar"
                    /\ ultima' = "termo"
    /\ UNCHANGED <<harness, disco, variante, idioma, artigos, pendentes, buscas, salvos,
                   descartados, erro>>

\* from the collected list to the display loop: score, filter, keep
Pontua(novos_artigos, depois) ==
    LET r == calcular_relevancia(novos_artigos, query_acumulada, idioma)
        artigos_relevantes == Relevantes(r.ordenados)
    IN  IF r.erro # ""
        THEN /\ Aborta(r.erro, "relevancia_excecao")
             /\ UNCHANGED <<artigos, pendentes, descartados>>
        ELSE /\ artigos' = artigos \o artigos_relevantes
             /\ pendentes' = artigos_relevantes
             /\ descartados' = descartados
                    + Cardinality({ i \in DOMAIN r.ordenados : r.ordenados[i].relevancia <= 0 })
             /\ pc' = IF artigos_relevantes = <<>> THEN depois ELSE "exibir"
             /\ ultima' = "pontuou"
             /\ erro' = erro

\* SerpiAPI: the rest of the loop body up to the display loop
ColetarSerpiAPI ==
    /\ variante = "SerpiAPI"
    /\ pc = "coletar"
    /\ buscas' = Append(buscas, query_acumulada)
    /\ \E digitado \in EntradasMax, resposta \in Respostas :
        LET c == coletar_artigos(resposta, LeMaxResultados(digitado))
        IN  IF c.erro # ""
            THEN /\ Aborta(c.erro, "busca_excecao")
                 /\ UNCHANGED <<artigos, pendentes, descartados>>
            ELSE IF c.artigos = <<>>
            THEN /\ pc' = "prompt"
                 /\ ultima' = IF resposta.status = 200 THEN "sem_artigos" ELSE "busca_nao_200"
                 /\ UNCHANGED <<artigos, pendentes, descartados, erro>>
            ELSE Pontua(c.artigos, "prompt")
    /\ UNCHANGED <<harness, disco, variante, idioma, novo_termo, query_acumulada, salvos,
                   rodadas>>

\* bilingue: read the cap, collect, score and filter
ColetarBilingue ==
    /\ variante = "bilingue"
    /\ pc = "coletar"
    /\ buscas' = Append(buscas, query_acumulada)
    /\ \E digitado \in EntradasMax, resposta \in { r \in Respostas : r.status # 500 } :
        LET c == coletar_artigos_scholarly(resposta, LeMaxResultados(digitado))
        IN  IF c.erro # ""
            THEN /\ Aborta(c.erro, "busca_excecao")
                 /\ UNCHANGED <<artigos, pendentes, descartados>>
            ELSE IF c.artigos = <<>>
            THEN /\ pc' = "fim"
                 /\ ultima' = "sem_artigos"
                 /\ UNCHANGED <<artigos, pendentes, descartados, erro>>
            ELSE Pontua(c.artigos, "salvar")
    /\ UNCHANGED <<harness, disco, variante, idioma, novo_termo, query_acumulada, salvos,
                   rodadas>>

\* one turn of "for artigo in artigos_relevantes": print, keywords, baixar_pdf
ExibirArtigo ==
    /\ pc = "exibir"
    /\ pendentes # <<>>
    /\ \E amb \in Ambientes :
        LET r == baixar_pdf(Head(pendentes), amb, pasta_existe, arquivos)
        IN  /\ pasta_existe' = r.pasta_existe
            /\ arquivos' = r.arquivos
            /\ IF r.erro # ""
               THEN /\ Aborta(r.erro, "pdf_excecao")
                    /\ UNCHANGED pendentes
               ELSE /\ pendentes' = Tail(pendentes)
                    /\ pc' = IF Tail(pendentes) # <<>> THEN "exibir"
                             ELSE IF variante = "SerpiAPI" THEN "prompt" ELSE "salvar"
                    /\ ultima' = IF r.retorno THEN "pdf_ok" ELSE "pdf_falhou"
                    /\ erro' = erro
    /\ UNCHANGED <<harness, variante, idioma, novo_termo, query_acumulada, artigos, buscas,
                   salvos, rodadas, descartados>>

\* SerpiAPI: if artigos: salvar_artigos(artigos)
\* bilingue: salvar_artigos(artigos_relevantes)
Salvar ==
    /\ pc = "salvar"
    /\ salvos' = IF variante = "SerpiAPI" /\ artigos = <<>> THEN salvos
                 ELSE Append(salvos, artigos)
    /\ pc' = "fim"
    /\ ultima' = "salvar"
    /\ UNCHANGED <<harness, disco, variante, idioma, novo_termo, query_acumulada, artigos,
                   pendentes, buscas, rodadas, descartados, erro>>

Next ==
    \/ CarregarModelos
    \/ LerTema
    \/ LerIdioma
    \/ LerTermo
    \/ ColetarSerpiAPI
    \/ ColetarBilingue
    \/ ExibirArtigo
    \/ Salvar

Spec == Init /\ [][Next]_vars

(***************************************************************************)
(* Properties of calcular_relevancia (under SpecRelevancia)                *)
(***************************************************************************)
Retornou == chamada = "retornou"

NaoCrescente(arts) ==
    \A i, j \in DOMAIN arts : i < j => arts[i].relevancia >= arts[j].relevancia

\* position in the filtered list of the i-th article of the list
PosFiltrada(arts, i) == Cardinality({ j \in 1..i : arts[j].resumo # Sentinela })

\* C1: after the call returns, every article whose resumo is the sentinel
\* has relevancia 0, wherever it stands in the list.
C1_SentinelaZero ==
    Retornou => \A i \in DOMAIN apos : apos[i].resumo = Sentinela => apos[i].relevancia = 0

\* C2: the k-th article whose resumo is not the sentinel receives the k-th
\* computed similarity, whatever sentinel articles precede it.
C2_SimilaridadePropria ==
    Retornou =>
        LET sims == Similaridades(Textos(entrada.artigos), entrada.termo, entrada.idioma).valores
        IN  \A i \in DOMAIN apos :
                apos[i].resumo # Sentinela => apos[i].relevancia = sims[PosFiltrada(apos, i)]

\* C3: the returned list has non-increasing relevancia from first to last.
C3_NaoCrescente == Retornou => NaoCrescente(saida)

\* C3 witness: a returned list of three articles with two different relevancia
\* values whose input order was not already non-increasing.
C3_Witness ==
    /\ Retornou
    /\ Len(saida) >= 3
    /\ ~NaoCrescente(apos)
    /\ saida[1].relevancia > saida[Len(saida)].relevancia

\* C4: an empty article list returns an empty list and raises no error.
C4_ListaVazia ==
    (entrada.artigos = <<>> /\ chamada # "pendente") => (Retornou /\ saida = <<>>)

\* a document with no token left after stop-word removal
SemTokens(texto, idi) == Tokenize(texto, idi) = <<>>

\* every abstract and the query are empty or stop words only (empty
\* vocabulary), or fewer than 2 non-empty documents exist
Degenerado ==
    LET docs == Append(Textos(entrada.artigos), entrada.termo)
    IN  \/ Vocabulario(docs, entrada.idioma) = {}
        \/ Cardinality({ i \in DOMAIN docs : ~SemTokens(docs[i], entrada.idioma) }) < 2

\* C5: on degenerate vectorization the scorer does not raise: it returns the
\* ranked list with every relevancia 0.
C5_DegeneradoZero ==
    (entrada.artigos # <<>> /\ Degenerado /\ chamada # "pendente") =>
        /\ Retornou
        /\ Len(saida) = Len(entrada.artigos)
        /\ \A i \in DOMAIN saida : saida[i].relevancia = 0

Posicao(arts, a) == CHOOSE i \in DOMAIN arts : arts[i] = a

SemRelevancia(a) == [titulo |-> a.titulo, resumo |-> a.resumo, link |-> a.link]

\* C10: the returned list is a permutation of the input list, and two
\* articles of equal relevancia keep their input order.
C10_EstavelPermutacao ==
    Retornou =>
        /\ Len(saida) = Len(entrada.artigos)
        /\ Range(saida) = Range(apos)
        /\ \A i \in DOMAIN apos : SemRelevancia(apos[i]) = entrada.artigos[i]
        /\ \A i, j \in DOMAIN apos :
                (i < j /\ apos[i].relevancia = apos[j].relevancia)
                    => Posicao(saida, apos[i]) < Posicao(saida, apos[j])

\* C10 witness: two articles tied at a positive relevancia, followed in the
\* input by an article of higher relevancia, so the sort moves them.
C10_Witness ==
    /\ Retornou
    /\ \E i, j, k \in DOMAIN apos :
            /\ i < j /\ j < k
            /\ apos[i].relevancia = apos[j].relevancia
            /\ apos[i].relevancia > 0
            /\ apos[k].relevancia > apos[i].relevancia

(***************************************************************************)
(* Properties of baixar_pdf (under SpecPdf)                                *)
(***************************************************************************)
\* the download succeeded: status 200 and the body written to the file
\* named from the first 50 characters of the title
BaixouCompleto ==
    /\ entrada.artigo.link # ""
    /\ entrada.amb.resposta = "200"
    /\ entrada.amb.escrita = "ok"

\* C9: baixar_pdf never raises; it returns False on every failure (missing
\* link, network exception, non-200, directory creation or write failure)
\* and True only when the status is 200 and the body was written.
C9_NuncaLevanta ==
    chamada # "pendente" =>
        /\ chamada = "retornou"
        /\ saida = BaixouCompleto
        /\ saida => SubSeq(entrada.artigo.titulo, 1,
                           Min(CorteTitulo, Len(entrada.artigo.titulo))) \in arquivos

(***************************************************************************)
(* Properties of the scripts (under Spec)                                  *)
(***************************************************************************)
TermoSair == LowerTexto(novo_termo) = <<"sair">>

\* C6 as stated: an empty term or "sair" (any letter case) ends the query
\* loop, so no round and no search is started for such a term.
C6_VazioOuSairTermina ==
    (variante = "SerpiAPI" /\ pc = "coletar") => (novo_termo # <<>> /\ ~TermoSair)

\* C6 amended: the term "sair" in any letter case, and only it, ends the query
\* loop: no round is started and no search issued for it, and the script goes
\* to the final save step; every other term, the empty one included, starts a
\* round with its search.
C6_SairTermina ==
    variante = "SerpiAPI" =>
        /\ pc \in {"coletar", "exibir", "prompt"} => ~TermoSair
        /\ pc \in {"salvar", "fim"} => (TermoSair /\ Len(buscas) = rodadas)
        /\ pc = "coletar" => Len(buscas) = rodadas - 1

\* C6 witness: the loop was left on "SAIR" typed in capitals after a round
\* whose term was empty.
C6_Witness ==
    /\ variante = "SerpiAPI"
    /\ pc = "salvar"
    /\ novo_termo = <<"SAIR">>
    /\ rodadas >= 1
    /\ <<>> \in Range(buscas)

\* C7: a failed search (exception or non-200) gives an empty list for the
\* round and the loop goes on to ask for the next term.
C7_FalhaDeBuscaNaoTermina ==
    (variante = "SerpiAPI" /\ ultima \in {"busca_excecao", "busca_nao_200"})
        => (pc = "prompt" /\ erro = "")

SoRelevantes(arts) == \A i \in DOMAIN arts : arts[i].relevancia > 0

\* C8: every article handed to salvar_artigos has relevancia > 0, none has
\* relevancia 0; so does the accumulated list after any number of rounds.
C8_SoRelevantesSalvos ==
    /\ \A k \in DOMAIN salvos : SoRelevantes(salvos[k])
    /\ SoRelevantes(artigos)
    /\ SoRelevantes(pendentes)

\* C8 witness: after two rounds, one of which scored an article 0, the
\* accumulating script saved a non-empty list.
C8_Witness ==
    /\ variante = "SerpiAPI"
    /\ rodadas >= 2
    /\ descartados >= 1
    /\ salvos # <<>>
    /\ salvos[1] # <<>>

====
